---- MODULE Spec2Model ----
(***************************************************************************)
(* Model of app.py: a FastAPI application with one endpoint,               *)
(* POST /generate, that validates a request, selects a system prompt,      *)
(* renders a user prompt, calls the OpenAI chat completion API and parses  *)
(* the returned text as JSON.                                              *)
(*                                                                         *)
(* Optional values (None in Python, a missing JSON field) are modelled as  *)
(* sequences of length 0 or 1: <<>> is "absent", <<v>> is "present, v".    *)
(* Text returned by the provider is a sequence of one-character strings.   *)
(* The Turkish prompt texts are written with ASCII letters because the     *)
(* module's strings are ASCII only.                                        *)
(***************************************************************************)
EXTENDS Integers, Sequences, FiniteSets, TLC

\* ------------------------------------------------------------------ bounds
\* Number of requests that may be in flight in the one server process.
NumRequests ==
    2

\* Longest provider reply (in characters) explored by SpecOne.
MaxTextLen ==
    3

Requests ==
    1..NumRequests

\* ------------------------------------------------- FlashcardRequest schema
\* count: int = Field(default=5, ge=1, le=10)
CountDefault ==
    5

CountMin ==
    1

CountMax ==
    10

\* language: str = Field(default="en", pattern="^(en|tr)$")
LanguageDefault ==
    "en"

\* The strings matched by the regular expression ^(en|tr)$ (the anchors make
\* it a full match of one of the two alternatives).
LanguagePattern ==
    {"en", "tr"}

Some(v) ==
    <<v>>

None ==
    <<>>

\* A field with a default takes the default when the body omits it.
WithDefault(field, default) ==
    IF field = None THEN default ELSE field[1]

\* Mutant of SchemaValid: the upper bound le=10 of count is not enforced.
SchemaValid_NoCountMax(body) ==
    /\ body.topic # None
    /\ body.card_type # None
    /\ WithDefault(body.count, CountDefault) >= CountMin
    /\ WithDefault(body.language, LanguageDefault) \in LanguagePattern

\* Mutant of SchemaValid: topic is treated as an optional field.
SchemaValid_TopicOptional(body) ==
    /\ body.card_type # None
    /\ WithDefault(body.count, CountDefault) >= CountMin
    /\ WithDefault(body.count, CountDefault) <= CountMax
    /\ WithDefault(body.language, LanguageDefault) \in LanguagePattern

\* pydantic validation of a JSON body against FlashcardRequest: topic and
\* card_type are required strings with no further constraint, count and
\* language are constrained and have defaults.
SchemaValid(body) ==
    /\ body.topic # None
    /\ body.card_type # None
    /\ WithDefault(body.count, CountDefault) >= CountMin
    /\ WithDefault(body.count, CountDefault) <= CountMax
    /\ WithDefault(body.language, LanguageDefault) \in LanguagePattern

\* The FlashcardRequest object built from a body that passed validation.
FlashcardRequest(body) ==
    [topic     |-> WithDefault(body.topic, ""),
     card_type |-> WithDefault(body.card_type, ""),
     count     |-> WithDefault(body.count, CountDefault),
     language  |-> WithDefault(body.language, LanguageDefault)]

\* ---------------------------------------------------------- system prompts
SYSTEM_PROMPT_EN ==
    "You are an expert educational content creator specializing in flashcards for students and lifelong learners. "

QUIZ_SYSTEM_PROMPT_EN ==
    "You are an expert educational content creator specializing in multiple-choice quizzes for students and lifelong learners. "

SYSTEM_PROMPT_TR ==
    "Sen ogrenciler ve yasam boyu ogrenenler icin flashcard olusturma konusunda uzman bir egitim icerigi yaraticisisin. "

QUIZ_SYSTEM_PROMPT_TR ==
    "Sen ogrenciler ve yasam boyu ogrenenler icin coktan secmeli sinavlar konusunda uzman bir egitim icerigi yaraticisisin. "

\* Mutant of get_system_prompt: the language test is inverted.
get_system_prompt_Swapped(card_type, language) ==
    IF card_type = "flashcard"
    THEN (IF language = "tr" THEN SYSTEM_PROMPT_EN ELSE SYSTEM_PROMPT_TR)
    ELSE IF card_type = "quiz"
    THEN (IF language = "tr" THEN QUIZ_SYSTEM_PROMPT_EN ELSE QUIZ_SYSTEM_PROMPT_TR)
    ELSE "ValueError"

\* get_system_prompt; the final branch (raise ValueError) is written as the
\* value "ValueError", which is not a prompt.
get_system_prompt(card_type, language) ==
    IF card_type = "flashcard"
    THEN (IF language = "tr" THEN SYSTEM_PROMPT_TR ELSE SYSTEM_PROMPT_EN)
    ELSE IF card_type = "quiz"
    THEN (IF language = "tr" THEN QUIZ_SYSTEM_PROMPT_TR ELSE QUIZ_SYSTEM_PROMPT_EN)
    ELSE "ValueError"

\* get_user_prompt: four f-string templates; every card_type other than
\* "flashcard" takes the quiz template.
get_user_prompt(card_type, topic, count, language) ==
    IF language = "tr"
    THEN IF card_type = "flashcard"
         THEN "'" \o topic \o "' konusu hakkinda " \o ToString(count)
              \o " adet flashcard olustur. "
              \o "Sonucu gecerli bir JSON dizisi olarak dondur. "
              \o "Her flashcard'da 'question' ve 'answer' anahtarlari bulunmali. "
              \o "Ornek: [{\"question\": \"... nedir?\", \"answer\": \"...\"}, ...]"
         ELSE "'" \o topic \o "' konusu hakkinda " \o ToString(count)
              \o " adet coktan secmeli soru olustur. "
              \o "Sadece belirtilen gecerli JSON dizisini dondur."
    ELSE IF card_type = "flashcard"
         THEN "Create " \o ToString(count) \o " flashcards about '" \o topic \o "'. "
              \o "Return the result as a valid JSON array. "
              \o "Each flashcard should have 'question' and 'answer' keys. "
              \o "Example: [{\"question\": \"What is ...?\", \"answer\": \"...\"}, ...]"
         ELSE "Create " \o ToString(count) \o " multiple-choice questions about '"
              \o topic \o "'. "
              \o "Return only the valid JSON array as specified."

\* The messages argument of client.chat.completions.create.
Messages(req) ==
    [model  |-> "gpt-4",
     system |-> get_system_prompt(req.card_type, req.language),
     user   |-> get_user_prompt(req.card_type, req.topic, req.count, req.language)]

\* ------------------------------------------------------------ json.loads
\* Characters a provider reply is built from: whitespace, the array
\* punctuation, a digit and a letter that starts no JSON value.
Chars ==
    {" ", "[", "]", ",", "1", "x"}

Digits ==
    {"1"}

DigitVal(c) ==
    IF c = "1" THEN 1 ELSE 0

Whitespace ==
    {" "}

RECURSIVE LStrip(_)
LStrip(s) ==
    IF s # <<>> /\ Head(s) \in Whitespace THEN LStrip(Tail(s)) ELSE s

RECURSIVE RStrip(_)
RStrip(s) ==
    IF s # <<>> /\ s[Len(s)] \in Whitespace
    THEN RStrip(SubSeq(s, 1, Len(s) - 1))
    ELSE s

\* str.strip(): removes leading and trailing whitespace.
Strip(s) ==
    RStrip(LStrip(s))

\* Index of the first non-whitespace character at or after i.
RECURSIVE SkipWs(_, _)
SkipWs(s, i) ==
    IF i <= Len(s) /\ s[i] \in Whitespace THEN SkipWs(s, i + 1) ELSE i

\* A run of digits starting at i, as the integer it denotes.
RECURSIVE ScanNumber(_, _, _)
ScanNumber(s, i, acc) ==
    IF i <= Len(s) /\ s[i] \in Digits
    THEN ScanNumber(s, i + 1, acc * 10 + DigitVal(s[i]))
    ELSE [ok |-> TRUE, val |-> [t |-> "int", n |-> acc], next |-> i]

ParseFail ==
    [ok |-> FALSE]

\* The JSON scanner: a value starting at index i is a number or an array;
\* an array is "[" ws "]" or "[" ws value ws ("," ws value ws)* "]".
RECURSIVE ParseValue(_, _)
RECURSIVE ParseElems(_, _, _)
ParseValue(s, i) ==
    IF i > Len(s) THEN ParseFail
    ELSE IF s[i] \in Digits THEN ScanNumber(s, i, 0)
    ELSE IF s[i] = "["
    THEN LET j == SkipWs(s, i + 1)
         IN  IF j <= Len(s) /\ s[j] = "]"
             THEN [ok |-> TRUE, val |-> [t |-> "list", items |-> <<>>], next |-> j + 1]
             ELSE ParseElems(s, j, <<>>)
    ELSE ParseFail

ParseElems(s, i, acc) ==
    LET r == ParseValue(s, i)
    IN  IF ~r.ok THEN ParseFail
        ELSE LET j == SkipWs(s, r.next)
             IN  IF j > Len(s) THEN ParseFail
                 ELSE IF s[j] = ","
                 THEN ParseElems(s, SkipWs(s, j + 1), Append(acc, r.val))
                 ELSE IF s[j] = "]"
                 THEN [ok |-> TRUE,
                       val |-> [t |-> "list", items |-> Append(acc, r.val)],
                       next |-> j + 1]
                 ELSE ParseFail

\* json.loads(s): one value between optional whitespace and nothing else;
\* ok = FALSE stands for json.JSONDecodeError.
json_loads(s) ==
    LET r == ParseValue(s, SkipWs(s, 1))
    IN  IF r.ok /\ SkipWs(s, r.next) > Len(s)
        THEN [ok |-> TRUE, val |-> r.val]
        ELSE ParseFail

\* All texts over Chars of length at most n.
RECURSIVE TextsUpTo(_)
TextsUpTo(n) ==
    IF n = 0 THEN {<<>>}
    ELSE LET shorter == TextsUpTo(n - 1)
         IN  shorter \cup {Append(t, c) : t \in shorter, c \in Chars}

\* ------------------------------------------------------------- exceptions
HTTPException(status_code, detail) ==
    [cls |-> "HTTPException", status_code |-> status_code, detail |-> detail]

\* Any other exception class, with the message it was constructed with.
Error(cls, message) ==
    [cls |-> cls, message |-> message]

InvalidCardTypeDetail ==
    "Invalid card_type. Use 'flashcard' or 'quiz'."

InvalidJSONDetail ==
    "AI did not return valid JSON"

\* The possible values of str(e).  For an ordinary exception it is the
\* message.  HTTPException is constructed with keyword arguments only, so
\* its args are empty: str(e) is "" where the installed framework inherits
\* Exception.__str__, and "<status_code>: <detail>" where the framework
\* defines HTTPException.__str__.  The repository pins no version, so both
\* are outcomes of the expression.
StrOutcomes(e) ==
    IF e.cls = "HTTPException"
    THEN {"", ToString(e.status_code) \o ": " \o e.detail}
    ELSE {e.message}

\* Mutant of CatchAll: the handler answers with a fixed text instead of
\* str(e).
CatchAll_FixedDetail(e) ==
    {[status |-> 500, body |-> [detail |-> "Internal Server Error"]]}

\* except Exception as e: raise HTTPException(status_code=500,
\* detail=str(e)).  The except clause encloses the whole handler body, so it
\* also catches the HTTPExceptions raised inside it.  The result is the set
\* of responses the caller can receive.
CatchAll(e) ==
    {[status |-> 500, body |-> [detail |-> d]] : d \in StrOutcomes(e)}

\* The framework's answer to a body that fails FlashcardRequest validation.
ValidationErrorResponse ==
    [status |-> 422, body |-> [detail |-> "validation error"]]

\* Mutant of ParseOutcome: a parsed value that is not a list is refused.
ParseOutcome_ShapeChecked(text) ==
    LET parsed == json_loads(Strip(text))
    IN  IF parsed.ok /\ parsed.val.t = "list"
        THEN [raised |-> None,
              responses |-> {[status |-> 200, body |-> [result |-> parsed.val]]}]
        ELSE LET e == HTTPException(500, InvalidJSONDetail)
             IN  [raised |-> Some(e), responses |-> CatchAll(e)]

\* result_text = content.strip(); json.loads(result_text); on
\* JSONDecodeError raise HTTPException(500, ...), which the enclosing except
\* clause catches; otherwise return {"result": result_json}.
ParseOutcome(text) ==
    LET parsed == json_loads(Strip(text))
    IN  IF parsed.ok
        THEN [raised |-> None,
              responses |-> {[status |-> 200, body |-> [result |-> parsed.val]]}]
        ELSE LET e == HTTPException(500, InvalidJSONDetail)
             IN  [raised |-> Some(e), responses |-> CatchAll(e)]

\* Mutant of StartupOutcome: the check of api_key is missing.
StartupOutcome_NoCheck(key) ==
    "serving"

\* if api_key is None: raise RuntimeError(...) at import time.
StartupOutcome(key) ==
    IF key = None THEN "crashed" ELSE "serving"

\* ------------------------------------------------------------------ state
VARIABLES
    env,        \* OPENAI_API_KEY in the environment: None or Some(string)
    api_key,    \* the module global api_key
    proc,       \* "booting", "serving" or "crashed"
    loop,       \* the requests whose handler occupies the event-loop thread
    pc,         \* per request: position of its handling
    body,       \* per request: the JSON body it carries
    req,        \* per request: the validated FlashcardRequest
    sent,       \* per request: the messages passed to the provider
    calls,      \* per request: number of provider calls issued
    content,    \* per request: the provider's reply
    exc,        \* per request: the exception caught by the except clause
    response    \* per request: the HTTP response

vars ==
    <<env, api_key, proc, loop, pc, body, req, sent, calls, content, exc, response>>

\* Values of OPENAI_API_KEY: unset, set to the empty string, set to a key.
EnvKeys ==
    {None, Some(""), Some("sk-test")}

\* Request bodies: every field absent or present, with values on both sides
\* of each constraint.
Bodies ==
    [topic     : {None, Some(""), Some("Photosynthesis")},
     card_type : {None, Some("flashcard"), Some("quiz"), Some("essay")},
     count     : {None} \cup {Some(n) : n \in {CountMin - 1, CountMin, CountMax, CountMax + 1}},
     language  : {None, Some("en"), Some("tr"), Some("de")}]

\* A few bodies, one per way a request can fare.
SampleBodies ==
    {[topic |-> Some("Photosynthesis"), card_type |-> Some("flashcard"),
      count |-> Some(3), language |-> Some("en")],
     [topic |-> Some(""), card_type |-> Some("quiz"),
      count |-> None, language |-> Some("tr")],
     [topic |-> Some("x"), card_type |-> Some("essay"),
      count |-> Some(5), language |-> None],
     [topic |-> Some("x"), card_type |-> Some("quiz"),
      count |-> Some(CountMax + 1), language |-> None],
     [topic |-> None, card_type |-> Some("flashcard"),
      count |-> None, language |-> Some("de")]}

\* What the provider's response holds: no choices at all, a message whose
\* content is None, or a message with text.
NoChoices ==
    [choices |-> 0]

NullContent ==
    [choices |-> 1, content |-> None]

TextContent(text) ==
    [choices |-> 1, content |-> Some(text)]

Contents ==
    {NoChoices, NullContent} \cup {TextContent(t) : t \in TextsUpTo(MaxTextLen)}

SampleContents ==
    {NoChoices, NullContent, TextContent(<<"[", "1", "]">>),
     TextContent(<<" ", "1">>), TextContent(<<"x">>)}

\* Messages of the errors a provider call raises.
ProviderErrors ==
    {Error("APIConnectionError", "Connection error."),
     Error("AuthenticationError", "Incorrect API key provided")}

Init ==
    /\ env \in EnvKeys
    /\ api_key = None
    /\ proc = "booting"
    /\ loop = {}
    /\ pc = [r \in Requests |-> "Idle"]
    /\ body = [r \in Requests |-> None]
    /\ req = [r \in Requests |-> None]
    /\ sent = [r \in Requests |-> None]
    /\ calls = [r \in Requests |-> 0]
    /\ content = [r \in Requests |-> None]
    /\ exc = [r \in Requests |-> None]
    /\ response = [r \in Requests |-> None]

\* Module import: load_dotenv(), api_key = os.getenv(...), the None check,
\* construction of client and app.
Startup ==
    /\ proc = "booting"
    /\ api_key' = env
    /\ proc' = StartupOutcome(env)
    /\ UNCHANGED <<env, loop, pc, body, req, sent, calls, content, exc, response>>

\* A client's POST /generate reaches the server's socket.
Receive(r) ==
    /\ proc = "serving"
    /\ pc[r] = "Idle"
    /\ pc' = [pc EXCEPT ![r] = "Received"]
    /\ UNCHANGED <<env, api_key, proc, loop, body, req, sent, calls, content, exc, response>>

\* The event loop runs the request's task: the body b is validated against
\* FlashcardRequest; a rejected body is answered by the framework, an
\* accepted one enters generate_flashcard, which runs on the event-loop
\* thread (async def) until it returns or raises.
SchemaValidate(r, b) ==
    /\ pc[r] = "Received"
    /\ loop = {}
    /\ body' = [body EXCEPT ![r] = Some(b)]
    /\ IF SchemaValid(b)
       THEN /\ req' = [req EXCEPT ![r] = Some(FlashcardRequest(b))]
            /\ pc' = [pc EXCEPT ![r] = "Validating"]
            /\ loop' = {r}
            /\ UNCHANGED response
       ELSE /\ response' = [response EXCEPT ![r] = Some(ValidationErrorResponse)]
            /\ pc' = [pc EXCEPT ![r] = "Done"]
            /\ UNCHANGED <<req, loop>>
    /\ UNCHANGED <<env, api_key, proc, sent, calls, content, exc>>

\* The handler raises e inside its try block: the except clause catches it
\* and the request ends with one of the responses of CatchAll(e).
Raise(r, e) ==
    /\ exc' = [exc EXCEPT ![r] = Some(e)]
    /\ \E resp \in CatchAll(e) : response' = [response EXCEPT ![r] = Some(resp)]
    /\ pc' = [pc EXCEPT ![r] = "Done"]
    /\ loop' = loop \ {r}

\* The card_type check, prompt selection and rendering, and the start of the
\* provider call, a blocking call made on the event-loop thread.
CheckCardType(r) ==
    /\ pc[r] = "Validating"
    /\ IF req[r][1].card_type \notin {"flashcard", "quiz"}
       THEN /\ Raise(r, HTTPException(400, InvalidCardTypeDetail))
            /\ UNCHANGED <<sent, calls>>
       ELSE /\ sent' = [sent EXCEPT ![r] = Some(Messages(req[r][1]))]
            /\ calls' = [calls EXCEPT ![r] = @ + 1]
            /\ pc' = [pc EXCEPT ![r] = "Invoking"]
            /\ UNCHANGED <<exc, response, loop>>
    /\ UNCHANGED <<env, api_key, proc, body, req, content>>

\* client.chat.completions.create returns a response holding c.
ProviderReturn(r, c) ==
    /\ pc[r] = "Invoking"
    /\ content' = [content EXCEPT ![r] = Some(c)]
    /\ pc' = [pc EXCEPT ![r] = "Parsing"]
    /\ UNCHANGED <<env, api_key, proc, loop, body, req, sent, calls, exc, response>>

\* Mutant of ProviderFail: the call is issued again after an error.
ProviderFail_Retry(r, e) ==
    /\ pc[r] = "Invoking"
    /\ calls' = [calls EXCEPT ![r] = @ + 1]
    /\ UNCHANGED <<env, api_key, proc, loop, pc, body, req, sent, content, exc, response>>

\* client.chat.completions.create raises e.
ProviderFail(r, e) ==
    /\ pc[r] = "Invoking"
    /\ Raise(r, e)
    /\ UNCHANGED <<env, api_key, proc, body, req, sent, calls, content>>

\* response.choices[0].message.content.strip(), json.loads and the return.
Parse(r) ==
    /\ pc[r] = "Parsing"
    /\ LET c == content[r][1]
       IN  IF c.choices = 0
           THEN Raise(r, Error("IndexError", "list index out of range"))
           ELSE IF c.content = None
           THEN Raise(r, Error("AttributeError",
                               "'NoneType' object has no attribute 'strip'"))
           ELSE LET out == ParseOutcome(c.content[1])
                IN  /\ exc' = [exc EXCEPT ![r] = out.raised]
                    /\ \E resp \in out.responses :
                          response' = [response EXCEPT ![r] = Some(resp)]
                    /\ pc' = [pc EXCEPT ![r] = "Done"]
                    /\ loop' = loop \ {r}
    /\ UNCHANGED <<env, api_key, proc, body, req, sent, calls, content>>

\* Several requests, a few bodies and replies each.
Next ==
    \/ Startup
    \/ \E r \in Requests :
          \/ Receive(r)
          \/ \E b \in SampleBodies : SchemaValidate(r, b)
          \/ CheckCardType(r)
          \/ \E c \in SampleContents : ProviderReturn(r, c)
          \/ \E e \in ProviderErrors : ProviderFail(r, e)
          \/ Parse(r)

Spec ==
    Init /\ [][Next]_vars

\* One request, every body and every reply up to MaxTextLen.
NextOne ==
    \/ Startup
    \/ Receive(1)
    \/ \E b \in Bodies : SchemaValidate(1, b)
    \/ CheckCardType(1)
    \/ \E c \in Contents : ProviderReturn(1, c)
    \/ \E e \in ProviderErrors : ProviderFail(1, e)
    \/ Parse(1)

SpecOne ==
    Init /\ [][NextOne]_vars

\* ================================================================ claims
IsDone(r) ==
    pc[r] = "Done"

\* The text the provider returned for r, when it returned text.
HasText(r) ==
    /\ content[r] # None
    /\ content[r][1].choices = 1
    /\ content[r][1].content # None

TextOf(r) ==
    content[r][1].content[1]

InHandler(r) ==
    pc[r] \in {"Validating", "Invoking", "Parsing"}

\* C1: a request that passes schema validation with a card_type other than
\* flashcard or quiz ends with status 400 and the fixed invalid-card-type
\* detail.
C1_InvalidCardType400 ==
    \A r \in Requests :
        (IsDone(r) /\ req[r] # None /\ req[r][1].card_type \notin {"flashcard", "quiz"})
            => response[r] = Some([status |-> 400,
                                   body |-> [detail |-> InvalidCardTypeDetail]])

\* C2: when the provider returns text that is not valid JSON the request
\* ends with status 500 and detail exactly "AI did not return valid JSON",
\* a detail no provider failure produces.
C2_InvalidJSON500 ==
    \A r \in Requests :
        (IsDone(r) /\ HasText(r) /\ ~json_loads(Strip(TextOf(r))).ok)
            => /\ response[r] = Some([status |-> 500,
                                      body |-> [detail |-> InvalidJSONDetail]])
               /\ \A e \in ProviderErrors :
                     response[r][1].body.detail \notin StrOutcomes(e)

\* C3: when the provider returns text that parses as JSON the request ends
\* with status 200 and body {"result": v}, v being the parsed value whatever
\* its shape.
C3_PassThrough ==
    \A r \in Requests :
        (IsDone(r) /\ HasText(r) /\ json_loads(TextOf(r)).ok)
            => /\ response[r] = Some([status |-> 200,
                                      body |-> [result |-> json_loads(TextOf(r)).val]])
               /\ exc[r] = None

\* C3 witness: a reply that is JSON but not an array was returned as is.
C3_Witness ==
    /\ IsDone(1) /\ HasText(1)
    /\ TextOf(1) = <<" ", "1", "1">>
    /\ response[1] = Some([status |-> 200, body |-> [result |-> [t |-> "int", n |-> 11]]])

\* C4: when the provider call fails, or its response holds no usable message
\* content, the request ends with status 500 whose detail is the error's
\* message, and the provider was called once only.
C4_ProviderFailure ==
    \A r \in Requests :
        /\ calls[r] <= 1
        /\ (IsDone(r) /\ exc[r] # None /\ exc[r][1].cls # "HTTPException")
              => /\ response[r] = Some([status |-> 500,
                                        body |-> [detail |-> exc[r][1].message]])
                 /\ calls[r] = 1

\* C4 witness: a provider call failed with a connection error.
C4_Witness ==
    /\ IsDone(1)
    /\ exc[1] = Some(Error("APIConnectionError", "Connection error."))
    /\ response[1][1].body.detail = "Connection error."

\* C5: a provider call is issued only for a request with card_type in
\* {flashcard, quiz}, count in [1,10] and language in {en, tr}; a body with
\* count or language out of range is answered at the schema boundary and
\* never enters the handler, and an unknown card_type fails before prompt
\* selection and the provider call.
C5_CallOnlyIfValid ==
    \A r \in Requests :
        /\ (calls[r] > 0 \/ sent[r] # None)
              => /\ req[r] # None
                 /\ req[r][1].card_type \in {"flashcard", "quiz"}
                 /\ req[r][1].count \in 1..10
                 /\ req[r][1].language \in {"en", "tr"}
        /\ (InHandler(r) \/ req[r] # None)
              => /\ body[r] # None
                 /\ WithDefault(body[r][1].count, 5) \in 1..10
                 /\ WithDefault(body[r][1].language, "en") \in {"en", "tr"}
        /\ (body[r] # None /\ (\/ WithDefault(body[r][1].count, 5) \notin 1..10
                               \/ WithDefault(body[r][1].language, "en") \notin {"en", "tr"}))
              => /\ IsDone(r) /\ response[r] = Some(ValidationErrorResponse)
                 /\ req[r] = None /\ sent[r] = None /\ calls[r] = 0

\* C5 witness: a body with count above the maximum was answered without a
\* provider call.
C5_Witness ==
    /\ IsDone(1)
    /\ body[1] # None /\ body[1][1].count = Some(11)
    /\ body[1][1].card_type = Some("quiz") /\ body[1][1].language = Some("tr")
    /\ calls[1] = 0

\* The steps of request r that need the event loop or the provider.
HandlerStep(r) ==
    \/ \E b \in SampleBodies : SchemaValidate(r, b)
    \/ CheckCardType(r)
    \/ \E c \in SampleContents : ProviderReturn(r, c)
    \/ \E e \in ProviderErrors : ProviderFail(r, e)
    \/ Parse(r)

\* C6: while one request waits for its provider call, every other request
\* can be accepted and can take its next step of validation, invocation or
\* parsing.
C6_NoBlocking ==
    \A r, s \in Requests :
        (r # s /\ pc[s] = "Invoking")
            => /\ pc[r] = "Idle" => ENABLED Receive(r)
               /\ pc[r] \in {"Received", "Validating", "Invoking", "Parsing"}
                     => ENABLED HandlerStep(r)

\* The table of system prompts by (card_type, language).
SystemPromptTable ==
    [p \in {"flashcard", "quiz"} \X {"en", "tr"} |->
        CASE p = <<"flashcard", "en">> -> SYSTEM_PROMPT_EN
          [] p = <<"flashcard", "tr">> -> SYSTEM_PROMPT_TR
          [] p = <<"quiz", "en">>      -> QUIZ_SYSTEM_PROMPT_EN
          [] p = <<"quiz", "tr">>      -> QUIZ_SYSTEM_PROMPT_TR]

\* C7: get_system_prompt returns the table entry for each of the four
\* (card_type, language) pairs, the four entries are pairwise distinct, and
\* the system message sent to the provider is the entry of the request's
\* pair.
C7_SystemPromptTable ==
    /\ \A p \in DOMAIN SystemPromptTable :
          get_system_prompt(p[1], p[2]) = SystemPromptTable[p]
    /\ \A p, q \in DOMAIN SystemPromptTable :
          p # q => SystemPromptTable[p] # SystemPromptTable[q]
    /\ \A r \in Requests :
          sent[r] # None
              => sent[r][1].system
                    = SystemPromptTable[<<req[r][1].card_type, req[r][1].language>>]

\* C7 witness: a Turkish quiz request was sent with the Turkish quiz prompt.
C7_Witness ==
    /\ sent[1] # None
    /\ req[1][1].card_type = "quiz" /\ req[1][1].language = "tr"
    /\ sent[1][1].system = QUIZ_SYSTEM_PROMPT_TR

\* C8 as stated: every request that reaches prompt rendering or the provider
\* call has a non-empty topic.
C8_TopicNonEmpty ==
    \A r \in Requests :
        (sent[r] # None \/ calls[r] > 0) => req[r][1].topic # ""

\* C8 as amended: every request that enters the handler, reaches prompt
\* rendering or the provider call carries a topic field, which may be the
\* empty string and is rendered unchanged; a body without topic is answered
\* at the schema boundary without a provider call.
C8_TopicPresent ==
    \A r \in Requests :
        /\ (InHandler(r) \/ sent[r] # None \/ calls[r] > 0)
              => /\ body[r] # None /\ body[r][1].topic # None
                 /\ req[r][1].topic = body[r][1].topic[1]
        /\ (body[r] # None /\ body[r][1].topic = None)
              => /\ IsDone(r) /\ response[r] = Some(ValidationErrorResponse)
                 /\ sent[r] = None /\ calls[r] = 0

\* C8 witness: a request with an empty topic reached the provider call.
C8_Witness ==
    /\ calls[1] = 1 /\ sent[1] # None
    /\ body[1][1].topic = Some("")
    /\ sent[1][1].user = get_user_prompt("flashcard", "", 10, "en")

\* C9: without OPENAI_API_KEY the process fails at startup and handles no
\* request; whenever a request is being handled the credential is present
\* and is the value loaded at startup.
C9_Credential ==
    /\ (env = None /\ proc # "booting") => proc = "crashed"
    /\ proc = "serving" => (api_key # None /\ api_key = env)
    /\ \A r \in Requests :
          pc[r] # "Idle" => (proc = "serving" /\ api_key # None /\ api_key = env)

\* C9 witness: one request has failed and another has succeeded, and the
\* credential is still the one loaded.
C9_Witness ==
    /\ api_key = Some("sk-test")
    /\ IsDone(1) /\ response[1][1].status = 500
    /\ IsDone(2) /\ response[2][1].status = 200

\* The moves of a request's position: forward along Received, Validating,
\* Invoking, Parsing, or from any of them to the end.
Moves ==
    {<<"Idle", "Received">>, <<"Received", "Validating">>,
     <<"Validating", "Invoking">>, <<"Invoking", "Parsing">>,
     <<"Received", "Done">>, <<"Validating", "Done">>,
     <<"Invoking", "Done">>, <<"Parsing", "Done">>}

IsOutcome(resp) ==
    \/ resp.status = 200 /\ DOMAIN resp.body = {"result"}
    \/ resp.status # 200 /\ DOMAIN resp.body = {"detail"}

\* C10: a request moves through Validating, Invoking, Parsing in that order
\* without entering a state twice; the provider is called at most once and
\* exactly when Invoking is entered; Parsing follows the provider's return;
\* a success response comes from Parsing only; the request ends with one
\* outcome, a result or an error, which never changes afterwards.
C10_Lifecycle ==
    [][\A r \in Requests :
          /\ pc'[r] # pc[r] => <<pc[r], pc'[r]>> \in Moves
          /\ calls'[r] <= 1
          /\ calls'[r] # calls[r] => (pc[r] = "Validating" /\ pc'[r] = "Invoking")
          /\ pc'[r] = "Invoking" => calls'[r] = 1
          /\ pc'[r] = "Parsing" => (content'[r] # None /\ calls'[r] = 1)
          /\ (response'[r] # response[r] /\ response'[r][1].status = 200)
                => pc[r] = "Parsing"
          /\ response'[r] # None <=> pc'[r] = "Done"
          /\ pc'[r] = "Done" => IsOutcome(response'[r][1])
          /\ pc[r] = "Done" => (pc'[r] = "Done" /\ response'[r] = response[r])
      ]_vars

\* C10 witness: one request ended in success after one provider call and
\* another ended in failure out of Invoking.
C10_Witness ==
    /\ IsDone(1) /\ response[1][1].status = 200 /\ calls[1] = 1
    /\ IsDone(2) /\ response[2][1].status = 500 /\ calls[2] = 1 /\ content[2] = None

====
